---- MODULE Spec2Model ----
(***************************************************************************)
(* A model of the condition/restart library of src/src/exceptions.c: the  *)
(* thread-local handler/finalizer stack, the restart stack, the dispatch  *)
(* loop of _throw_exception, the unwind of run_finalizers_and_unwind and  *)
(* invoke_restart.  User callbacks are modelled as code that may call     *)
(* back into the library (throw, invoke_restart) before it returns.       *)
(***************************************************************************)
EXTENDS Integers, Sequences, FiniteSets, TLC

\* ------------------------------------------------------------------ bounds
NumHandlers   == 3   \* addresses of struct condition_handler objects
NumFinalizers == 2   \* addresses of user struct condition_finalizer objects
NumRestarts   == 2   \* addresses of struct condition_restart objects
MaxStack      == 3   \* user registrations on the handler/finalizer stack
MaxRestarts   == 2   \* registrations on the restart stack
MaxConds      == 2   \* conditions in dispatch at one time
CountCap      == 2   \* the run counter of a finalizer node saturates here
ThreadEntries == 2   \* handler/finalizer nodes two threads hold between them

NULL == 0

HandlerRefs   == 1..NumHandlers
FinalizerRefs == 1..NumFinalizers
RestartRefs   == 1..NumRestarts
CondSlots     == 1..MaxConds
Names         == {"x", "y"}

\* enum handler_result, plus a value outside the enumeration
HANDLER_ABORT   == "HANDLER_ABORT"
HANDLER_HANDLED == "HANDLER_HANDLED"
HANDLER_PASS    == "HANDLER_PASS"
INVALID_RESULT  == "INVALID_RESULT"
HandlerResults  == {HANDLER_ABORT, HANDLER_HANDLED, HANDLER_PASS, INVALID_RESULT}

\* enum restart_result
RESTART_SUCCEED   == "RESTART_SUCCEED"
RESTART_FAIL      == "RESTART_FAIL"
RESTART_NOT_FOUND == "RESTART_NOT_FOUND"
RestartResults    == {RESTART_SUCCEED, RESTART_FAIL, RESTART_NOT_FOUND}

\* enum handler_entry_contents
HANDLER   == "HANDLER"
FINALIZER == "FINALIZER"

\* the condition_name each handler struct was initialised with
HandlerName(h) == IF h = NumHandlers THEN "y" ELSE "x"
\* the restart_name each restart struct was initialised with
RestartName(r) == IF r <= 2 THEN "x" ELSE "y"

\* the address of the cond_finalizer local of the dispatch of condition c:
\* distinct from every user finalizer
CondFinalizerRef(c) == 0 - c
IsCondFinalizer(ref) == ref < 0
CondOfFinalizer(ref) == 0 - ref

Inc(n) == IF n < CountCap THEN n + 1 ELSE CountCap

VARIABLES
  handlers,    \* the handler/finalizer stack, newest first
  restarts,    \* the restart stack, newest first: <<ref>>
  frames,      \* library calls in progress, innermost first
  conds,       \* per condition slot: "free", "live" or "freed twice"
  exited,      \* exit status of the process, NULL while it runs
  hcondition,  \* the condition field of each handler struct
  landed,      \* the jump that has just resumed user code, or NoJump
  returned,    \* the _throw_exception call that has just returned, or NoReturn
  lastInvoke,  \* the invoke_restart call that has just returned, or NoInvoke
  diag,        \* the diagnostic written by the last library call
  mem,         \* the list nodes the last step unlinked and those it freed
  self,        \* the thread that is running
  parked       \* the thread-local storage and call stack of the other thread

vars == <<handlers, restarts, frames, conds, exited, hcondition, landed,
          returned, lastInvoke, diag, mem, self, parked>>

NoJump   == [h |-> NULL, cond |-> NULL, name |-> "", entry |-> NULL, again |-> FALSE,
             invoked |-> <<>>, snap0 |-> <<>>, snap |-> <<>>, log |-> <<>>,
             runs |-> <<>>, rsnap0 |-> <<>>, below |-> <<>>]
NoReturn == [cond |-> NULL, name |-> "", invoked |-> <<>>, snap0 |-> <<>>,
             nodes0 |-> <<>>, rsnap0 |-> <<>>]
NoInvoke == [name |-> "", cond |-> NULL, called |-> <<>>, arg |-> NULL,
             cbresult |-> "", result |-> ""]

\* a step that unlinks no node and frees none; LL_DELETE of the node at p
\* followed by free; LL_DELETE alone
RESTART      == "RESTART"
NoMem        == [unlinked |-> <<>>, freed |-> <<>>]
Freed(node, p) ==
  [unlinked |-> <<[tag |-> node.tag, ref |-> node.ref, entry |-> p]>>,
   freed    |-> <<[tag |-> node.tag, ref |-> node.ref, entry |-> p]>>]
Unlinked(node, p) ==
  [unlinked |-> <<[tag |-> node.tag, ref |-> node.ref, entry |-> p]>>,
   freed    |-> <<>>]

\* ------------------------------------------------------- list of entries
\* A struct handler_entry * is the distance of the node from the end of the
\* list (the oldest node is 1), NULL past the end.  Beside tag and payload a
\* node carries its history: n counts the runs of a finalizer's callback, or
\* tells whether a handler's jump target has fired; esc tells that a run of
\* the finalizer's callback was left by a jump instead of a return.
ListHead(stack)    == Len(stack)
Entry(stack, p)    == stack[Len(stack) - p + 1]
NextEntry(p)       == p - 1
HandlerNode(h)     == [tag |-> HANDLER, ref |-> h, n |-> 0, esc |-> FALSE]
FinalizerNode(f)   == [tag |-> FINALIZER, ref |-> f, n |-> 0, esc |-> FALSE]
\* LL_PREPEND
Prepend(stack, node) == <<node>> \o stack
\* LL_DELETE of the node at p
Delete(stack, p) ==
  LET i == Len(stack) - p + 1
  IN  SubSeq(stack, 1, i - 1) \o SubSeq(stack, i + 1, Len(stack))
\* the history of the node at p, when there is one
Counted(stack, p) ==
  IF p = NULL THEN stack
  ELSE [stack EXCEPT ![Len(stack) - p + 1].n = Inc(@)]
\* tags and payloads alone
Shape(stack) == [i \in 1..Len(stack) |-> [tag |-> stack[i].tag, ref |-> stack[i].ref]]

\* ------------------------------------------------------------ searches
\* find_handler_entry without the strcmp: the first handler node
RECURSIVE FindHandlerEntryAnyName(_, _, _)
FindHandlerEntryAnyName(stack, head, condition_name) ==
  IF head = NULL THEN NULL
  ELSE IF Entry(stack, head).tag = HANDLER
       THEN head
       ELSE FindHandlerEntryAnyName(stack, NextEntry(head), condition_name)

\* find_handler_entry: the first node from head on that is a handler for
\* condition_name, NULL when the list is exhausted
RECURSIVE FindHandlerEntry(_, _, _)
FindHandlerEntry(stack, head, condition_name) ==
  IF head = NULL THEN NULL
  ELSE IF /\ Entry(stack, head).tag = HANDLER
          /\ HandlerName(Entry(stack, head).ref) = condition_name
       THEN head
       ELSE FindHandlerEntry(stack, NextEntry(head), condition_name)

\* find_restart_entry going on to the oldest entry of that name
RECURSIVE FindRestartEntryOldest(_, _, _)
FindRestartEntryOldest(rstack, head, restart_name) ==
  IF head = NULL THEN NULL
  ELSE LET older == FindRestartEntryOldest(rstack, NextEntry(head), restart_name)
       IN  IF older # NULL THEN older
           ELSE IF RestartName(Entry(rstack, head)) = restart_name
                THEN head ELSE NULL

\* find_restart_entry over the restart stack (a restart_entry * is again the
\* distance from the end of the list)
RECURSIVE FindRestartEntry(_, _, _)
FindRestartEntry(rstack, head, restart_name) ==
  IF head = NULL THEN NULL
  ELSE IF RestartName(Entry(rstack, head)) = restart_name
       THEN head
       ELSE FindRestartEntry(rstack, NextEntry(head), restart_name)

\* the scan going on to the oldest node with this tag and payload address
RECURSIVE ScanEntryOldest(_, _, _, _)
ScanEntryOldest(stack, head, tag, ref) ==
  IF head = NULL THEN NULL
  ELSE LET older == ScanEntryOldest(stack, NextEntry(head), tag, ref)
       IN  IF older # NULL THEN older
           ELSE IF Entry(stack, head).tag = tag /\ Entry(stack, head).ref = ref
                THEN head ELSE NULL

\* the scan of unregister_handler / unregister_finalizer: the first node from
\* head on with this tag and this payload address
RECURSIVE ScanEntry(_, _, _, _)
ScanEntry(stack, head, tag, ref) ==
  IF head = NULL THEN NULL
  ELSE IF Entry(stack, head).tag = tag /\ Entry(stack, head).ref = ref
       THEN head
       ELSE ScanEntry(stack, NextEntry(head), tag, ref)

\* the scan of unregister_restart
RECURSIVE ScanRestart(_, _, _)
ScanRestart(rstack, head, ref) ==
  IF head = NULL THEN NULL
  ELSE IF Entry(rstack, head) = ref
       THEN head
       ELSE ScanRestart(rstack, NextEntry(head), ref)

\* ------------------------------------------------------------ conditions
\* create_condition: malloc hands out a slot that is not in use
FreeSlots ==
  {c \in CondSlots : /\ conds[c] = "free"
                     /\ \A i \in 1..Len(frames) : frames[i].cond # c
                     /\ \A i \in 1..Len(parked.frames) : parked.frames[i].cond # c}
NewSlot == CHOOSE c \in FreeSlots : \A d \in FreeSlots : c <= d

\* destroy_condition: the condition is freed; freeing it again is recorded
DestroyCondition(cs, c) ==
  [cs EXCEPT ![c] = IF cs[c] = "live" THEN "free" ELSE "freed twice"]

\* ---------------------------------------------------------------- frames
\* fn is the library function, pc where it stands, canidate the local of
\* _throw_exception, fin the finalizer whose function runs and node its
\* stack node.  The rest is the history of the call: snap0 the stack it was
\* entered with, invoked the handlers it has called, snap the stack when a
\* handler returned HANDLER_ABORT and log the finalizers the unwind has run;
\* nodes0 and rsnap0 are the two lists as the call found them and runs tells,
\* for each finalizer of log, how often its callback has been entered by then.
Frame(fn, pc, cond, name, canidate, fin, node) ==
  [fn |-> fn, pc |-> pc, cond |-> cond, name |-> name, canidate |-> canidate,
   fin |-> fin, node |-> node, snap0 |-> <<>>, invoked |-> <<>>, snap |-> <<>>,
   log |-> <<>>, runs |-> <<>>, nodes0 |-> <<>>, rsnap0 |-> <<>>]

Running      == exited = NULL
InUserCode   == Running /\ frames = <<>>
InCallback   == /\ Running /\ frames # <<>>
                /\ Head(frames).pc \in {"handler_func", "finalizer_func"}
\* the callback holding on to the condition of the outermost call in progress
CondInHandOutermost ==
  IF frames # <<>> /\ Head(frames).pc = "handler_func"
  THEN frames[Len(frames)].cond ELSE NULL
\* the condition a callback has in hand: the one its handler was given
CondInHand   == IF frames # <<>> /\ Head(frames).pc = "handler_func"
                THEN Head(frames).cond ELSE NULL

Init ==
  /\ handlers = <<>>
  /\ restarts = <<>>
  /\ frames = <<>>
  /\ conds = [c \in CondSlots |-> "free"]
  /\ exited = NULL
  /\ hcondition = [h \in HandlerRefs |-> NULL]
  /\ landed = NoJump
  /\ returned = NoReturn
  /\ lastInvoke = NoInvoke
  /\ diag = ""
  /\ mem = NoMem
  /\ self = 1
  /\ parked = [handlers |-> <<>>, restarts |-> <<>>, frames |-> <<>>]

Quiet == landed' = NoJump /\ returned' = NoReturn /\ lastInvoke' = NoInvoke

\* ------------------------------------------------ register / unregister
\* _register_handler, with the setjmp of REGISTER_HANDLER arming the target
RegisterHandler(h) ==
  /\ InUserCode
  /\ Len(handlers) < MaxStack
  /\ handlers' = Prepend(handlers, HandlerNode(h))
  /\ Quiet /\ diag' = "" /\ mem' = NoMem
  /\ UNCHANGED <<restarts, frames, conds, exited, hcondition, self, parked>>

\* unregister_handler comparing the payload address alone, without the tag
UnregisterHandlerAnyTag(h) ==
  /\ InUserCode
  /\ LET hit == {p \in 1..Len(handlers) : Entry(handlers, p).ref = h}
     IN  IF hit # {}
         THEN LET p == CHOOSE p \in hit : \A q \in hit : q <= p
              IN  /\ handlers' = Delete(handlers, p)
                  /\ diag' = "" /\ mem' = Freed(Entry(handlers, p), p)
         ELSE handlers' = handlers /\ diag' = "unknown handler" /\ mem' = NoMem
  /\ Quiet
  /\ UNCHANGED <<restarts, frames, conds, exited, hcondition, self, parked>>

UnregisterHandler(h) ==
  /\ InUserCode
  /\ LET entry == ScanEntry(handlers, ListHead(handlers), HANDLER, h)
     IN  IF entry # NULL /\ Entry(handlers, entry).tag = HANDLER
         THEN /\ handlers' = Delete(handlers, entry) /\ diag' = ""
              /\ mem' = Freed(Entry(handlers, entry), entry)
         ELSE handlers' = handlers /\ diag' = "unknown handler" /\ mem' = NoMem
  /\ Quiet
  /\ UNCHANGED <<restarts, frames, conds, exited, hcondition, self, parked>>

RegisterFinalizer(f) ==
  /\ InUserCode
  /\ Len(handlers) < MaxStack
  /\ handlers' = Prepend(handlers, FinalizerNode(f))
  /\ Quiet /\ diag' = "" /\ mem' = NoMem
  /\ UNCHANGED <<restarts, frames, conds, exited, hcondition, self, parked>>

\* unregister_finalizer after the callback: scan, LL_DELETE or diagnostic
UnregisterFinalizerScan(stack, f) ==
  LET entry == ScanEntry(stack, ListHead(stack), FINALIZER, f)
  IN  IF entry # NULL /\ Entry(stack, entry).tag = FINALIZER
      THEN [stack |-> Delete(stack, entry), diag |-> "",
            mem |-> Freed(Entry(stack, entry), entry)]
      ELSE [stack |-> stack, diag |-> "unknown finalizer", mem |-> NoMem]

\* unregister_finalizer that forgets to call finalizer->func
UnregisterFinalizerNoCall(f) ==
  /\ InUserCode
  /\ handlers' = UnregisterFinalizerScan(handlers, f).stack
  /\ diag' = UnregisterFinalizerScan(handlers, f).diag
  /\ mem' = UnregisterFinalizerScan(handlers, f).mem
  /\ Quiet
  /\ UNCHANGED <<restarts, frames, conds, exited, hcondition, self, parked>>

\* unregister_finalizer, up to the call of finalizer->func: the callback is
\* entered before the list is looked at.  The run is counted on the node the
\* scan is going to find, when there is one.
UnregisterFinalizer(f) ==
  /\ InUserCode
  /\ LET node == ScanEntry(handlers, ListHead(handlers), FINALIZER, f)
     IN  /\ frames' = <<Frame("unregister_finalizer", "finalizer_func", NULL, "",
                              NULL, f, node)>>
         /\ handlers' = Counted(handlers, node)
  /\ Quiet /\ diag' = "" /\ mem' = NoMem
  /\ UNCHANGED <<restarts, conds, exited, hcondition, self, parked>>

RegisterRestart(r) ==
  /\ InUserCode
  /\ Len(restarts) < MaxRestarts
  /\ restarts' = Prepend(restarts, r)
  /\ Quiet /\ diag' = "" /\ mem' = NoMem
  /\ UNCHANGED <<handlers, frames, conds, exited, hcondition, self, parked>>

UnregisterRestart(r) ==
  /\ InUserCode
  /\ LET entry == ScanRestart(restarts, ListHead(restarts), r)
     IN  IF entry # NULL
         THEN /\ restarts' = Delete(restarts, entry) /\ diag' = ""
              /\ mem' = Unlinked([tag |-> RESTART, ref |-> Entry(restarts, entry)],
                                 entry)
         ELSE restarts' = restarts /\ diag' = "unknown restart" /\ mem' = NoMem
  /\ Quiet
  /\ UNCHANGED <<handlers, frames, conds, exited, hcondition, self, parked>>

\* ------------------------------------------------------- invoke_restart
\* what invoke_restart returns: the callback's result when an entry was
\* found, RESTART_NOT_FOUND otherwise
InvokeRestartResult(entry, cbresult) ==
  IF entry # NULL THEN cbresult ELSE RESTART_NOT_FOUND

\* invoke_restart(cond, restart_name), from user code or from a callback.
\* The restart callback returns RESTART_SUCCEED or RESTART_FAIL.
InvokeRestart(restart_name) ==
  /\ InUserCode \/ InCallback
  /\ LET entry == FindRestartEntry(restarts, ListHead(restarts), restart_name)
     IN  \E cbresult \in {RESTART_SUCCEED, RESTART_FAIL} :
           /\ entry = NULL => cbresult = RESTART_FAIL
           /\ lastInvoke' =
                [name     |-> restart_name,
                 cond     |-> CondInHand,
                 called   |-> IF entry # NULL THEN <<Entry(restarts, entry)>> ELSE <<>>,
                 arg      |-> IF entry # NULL THEN CondInHand ELSE NULL,
                 cbresult |-> IF entry # NULL THEN cbresult ELSE "",
                 result   |-> InvokeRestartResult(entry, cbresult)]
  /\ landed' = NoJump /\ returned' = NoReturn /\ diag' = "" /\ mem' = NoMem
  /\ UNCHANGED <<handlers, restarts, frames, conds, exited, hcondition, self, parked>>

\* ---------------------------------------------------- _throw_exception
\* lines 214-220: create the condition, register its finalizer, start the
\* search at the head of the list
Throw(name) ==
  /\ InUserCode \/ InCallback
  /\ FreeSlots # {}
  /\ LET c == NewSlot
         stack == Prepend(handlers, FinalizerNode(CondFinalizerRef(c)))
     IN  /\ conds' = [conds EXCEPT ![c] = "live"]
         /\ handlers' = stack
         /\ frames' = <<[Frame("throw", "loop", c, name, ListHead(stack), NULL, NULL)
                           EXCEPT !.snap0 = Shape(handlers), !.nodes0 = handlers,
                                  !.rsnap0 = restarts]>>
                        \o frames
  /\ Quiet /\ diag' = "" /\ mem' = NoMem
  /\ UNCHANGED <<restarts, exited, hcondition, self, parked>>

\* lines 246-249: no handler took the condition
FatalExit ==
  /\ exited' = 1
  /\ diag' = "Fatal condition"
  /\ UNCHANGED <<handlers, restarts, frames, conds, hcondition, self, parked>>

\* lines 222-228: one turn of the while loop up to the call of the handler
Dispatch ==
  /\ Running /\ frames # <<>>
  /\ Head(frames).fn = "throw" /\ Head(frames).pc = "loop"
  /\ LET fr == Head(frames)
         canidate == IF fr.canidate = NULL THEN NULL
                     ELSE FindHandlerEntry(handlers, fr.canidate, fr.name)
     IN  IF canidate = NULL
         THEN FatalExit
         ELSE /\ frames' = <<[fr EXCEPT !.canidate = canidate,
                                        !.pc = "handler_func",
                                        !.invoked = Append(fr.invoked,
                                            [entry |-> canidate,
                                             ref |-> Entry(handlers, canidate).ref,
                                             result |-> "running"])]>>
                             \o Tail(frames)
              /\ diag' = ""
              /\ UNCHANGED <<handlers, restarts, conds, exited, hcondition, self, parked>>
  /\ Quiet /\ mem' = NoMem

\* the switch with case HANDLER_PASS running into the code of HANDLER_ABORT
SwitchCasePassAborts(result) ==
  CASE result = HANDLER_ABORT   -> "abort"
    [] result = HANDLER_HANDLED -> "handled"
    [] result = HANDLER_PASS    -> "abort"
    [] OTHER                    -> "default"

\* the switch without its default case: an unknown result goes on to the next
\* handler
SwitchCaseNoDefault(result) ==
  CASE result = HANDLER_ABORT   -> "abort"
    [] result = HANDLER_HANDLED -> "handled"
    [] OTHER                    -> "pass"

\* the switch on the handler's result
SwitchCase(result) ==
  CASE result = HANDLER_ABORT   -> "abort"
    [] result = HANDLER_HANDLED -> "handled"
    [] result = HANDLER_PASS    -> "pass"
    [] OTHER                    -> "default"

\* case HANDLER_PASS: canidate = canidate->next
PassNext(canidate) == NextEntry(canidate)

\* case HANDLER_HANDLED taking the node off the list without running the
\* callback that destroys the condition
HandledCleanupNoDestroy(stack, cs, c) ==
  [conds |-> cs,
   scan  |-> UnregisterFinalizerScan(stack, CondFinalizerRef(c))]

\* case HANDLER_HANDLED taking the node under the condition's finalizer off
\* the list as well
HandledCleanupPopsNext(stack, cs, c) ==
  [conds |-> DestroyCondition(cs, c),
   scan  |-> [UnregisterFinalizerScan(stack, CondFinalizerRef(c))
                EXCEPT !.stack = Tail(@)]]

\* case HANDLER_HANDLED: unregister_finalizer(&cond_finalizer), whose callback
\* condition_finalizer destroys the condition before the node is removed
HandledCleanup(stack, cs, c) ==
  [conds |-> DestroyCondition(cs, c),
   scan  |-> UnregisterFinalizerScan(stack, CondFinalizerRef(c))]

\* lines 228-244: the handler's function returns result
HandlerReturn(result) ==
  /\ Running /\ frames # <<>>
  /\ Head(frames).fn = "throw" /\ Head(frames).pc = "handler_func"
  /\ LET fr == Head(frames)
         n  == Len(fr.invoked)
         done == [fr EXCEPT !.invoked[n].result = result]
     IN  CASE SwitchCase(result) = "abort" ->
                /\ frames' = <<[done EXCEPT !.pc = "unwind", !.snap = Shape(handlers)]>>
                               \o Tail(frames)
                /\ returned' = NoReturn
                /\ diag' = "" /\ mem' = NoMem
                /\ UNCHANGED <<handlers, conds, exited>>
           [] SwitchCase(result) = "handled" ->
                LET r == HandledCleanup(handlers, conds, fr.cond)
                IN  /\ handlers' = r.scan.stack
                    /\ diag' = r.scan.diag
                    /\ mem' = r.scan.mem
                    /\ conds' = r.conds
                    /\ frames' = Tail(frames)
                    /\ returned' = [cond |-> fr.cond, name |-> fr.name,
                                    invoked |-> done.invoked, snap0 |-> fr.snap0,
                                    nodes0 |-> fr.nodes0, rsnap0 |-> fr.rsnap0]
                    /\ UNCHANGED exited
           [] SwitchCase(result) = "pass" ->
                /\ frames' = <<[done EXCEPT !.pc = "loop",
                                            !.canidate = PassNext(fr.canidate)]>>
                               \o Tail(frames)
                /\ returned' = NoReturn
                /\ diag' = "" /\ mem' = NoMem
                /\ UNCHANGED <<handlers, conds, exited>>
           [] OTHER ->
                /\ exited' = 1
                /\ diag' = "Invalid handler option"
                /\ frames' = <<done>> \o Tail(frames)
                /\ returned' = NoReturn /\ mem' = NoMem
                /\ UNCHANGED <<handlers, conds>>
  /\ landed' = NoJump /\ lastInvoke' = NoInvoke
  /\ UNCHANGED <<restarts, hcondition, self, parked>>

\* ------------------------------------------- run_finalizers_and_unwind
\* the loop leaving one node late, after the handler's node was removed
UnwindStopsLate(current, entry) == current = NULL \/ current = NextEntry(entry)

\* the loop leaves at the handler's node (or at the end of the list)
UnwindStops(current, entry) == current = NULL \/ current = entry

\* line 196 testing for the other tag
UnwindRunsHandlers(node) == node.tag = HANDLER

\* line 196 passing over the library's own finalizers
UnwindRunsUserOnly(node) == node.tag = FINALIZER /\ ~IsCondFinalizer(node.ref)

\* line 196: which nodes have their callback run
UnwindRuns(node) == node.tag = FINALIZER

\* longjmp(canidate->handler->buf, 1): every library call in progress is
\* abandoned and user code resumes where the handler was established
Longjmp ==
  LET fr == Head(frames)
      h  == fr.snap[Len(fr.snap) - fr.canidate + 1].ref
      left == {frames[i].node : i \in {j \in 1..Len(frames) :
                                         frames[j].pc = "finalizer_func"}}
      at(i) == Len(handlers) - i + 1
  IN  /\ frames' = <<>>
      /\ landed' = [h |-> h, cond |-> fr.cond, name |-> fr.name,
                    entry |-> fr.canidate, snap0 |-> fr.snap0,
                    again |-> IF fr.canidate <= Len(handlers)
                              THEN Entry(handlers, fr.canidate).n > 0 ELSE FALSE,
                    invoked |-> fr.invoked, snap |-> fr.snap, log |-> fr.log,
                    runs |-> fr.runs, rsnap0 |-> fr.rsnap0, below |-> Tail(frames)]
      /\ handlers' = [i \in 1..Len(handlers) |->
                        IF at(i) = fr.canidate
                        THEN [handlers[i] EXCEPT !.n = 1]
                        ELSE IF at(i) \in left
                             THEN [handlers[i] EXCEPT !.esc = TRUE]
                             ELSE handlers[i]]
      /\ mem' = NoMem
      /\ UNCHANGED conds

\* the unwind popping, with each node it passes, the newest restart as well
UnwindStepPopsRestart ==
  /\ Running /\ frames # <<>>
  /\ Head(frames).fn = "throw" /\ Head(frames).pc = "unwind"
  /\ LET fr == Head(frames)
         current == ListHead(handlers)
     IN  IF UnwindStops(current, fr.canidate)
         THEN Longjmp
         ELSE LET node == Entry(handlers, current)
                  logged == [fr EXCEPT !.log = Append(fr.log, [entry |-> current,
                                                               ref |-> node.ref]),
                                       !.runs = Append(fr.runs, Inc(node.n))]
              IN  /\ IF UnwindRuns(node)
                     THEN IF IsCondFinalizer(node.ref)
                          THEN /\ conds' = DestroyCondition(conds, CondOfFinalizer(node.ref))
                               /\ handlers' = Delete(handlers, current)
                               /\ mem' = Freed(node, current)
                               /\ frames' = <<logged>> \o Tail(frames)
                          ELSE /\ handlers' = Counted(handlers, current)
                               /\ mem' = NoMem
                               /\ frames' = <<[logged EXCEPT !.pc = "finalizer_func",
                                                             !.fin = node.ref,
                                                             !.node = current]>>
                                              \o Tail(frames)
                               /\ UNCHANGED conds
                     ELSE /\ handlers' = Delete(handlers, current)
                          /\ mem' = Freed(node, current)
                          /\ UNCHANGED <<frames, conds>>
                  /\ landed' = NoJump
  /\ returned' = NoReturn /\ lastInvoke' = NoInvoke /\ diag' = ""
  /\ restarts' = IF restarts = <<>> THEN restarts ELSE Tail(restarts)
  /\ UNCHANGED <<exited, hcondition, self, parked>>

\* one turn of LL_FOREACH_SAFE, up to the call of a user finalizer
UnwindStep ==
  /\ Running /\ frames # <<>>
  /\ Head(frames).fn = "throw" /\ Head(frames).pc = "unwind"
  /\ LET fr == Head(frames)
         current == ListHead(handlers)
     IN  IF UnwindStops(current, fr.canidate)
         THEN Longjmp
         ELSE LET node == Entry(handlers, current)
                  logged == [fr EXCEPT !.log = Append(fr.log, [entry |-> current,
                                                               ref |-> node.ref]),
                                       !.runs = Append(fr.runs, Inc(node.n))]
              IN  /\ IF UnwindRuns(node)
                     THEN IF IsCondFinalizer(node.ref)
                          THEN /\ conds' = DestroyCondition(conds, CondOfFinalizer(node.ref))
                               /\ handlers' = Delete(handlers, current)
                               /\ mem' = Freed(node, current)
                               /\ frames' = <<logged>> \o Tail(frames)
                          ELSE /\ handlers' = Counted(handlers, current)
                               /\ mem' = NoMem
                               /\ frames' = <<[logged EXCEPT !.pc = "finalizer_func",
                                                             !.fin = node.ref,
                                                             !.node = current]>>
                                              \o Tail(frames)
                               /\ UNCHANGED conds
                     ELSE /\ handlers' = Delete(handlers, current)
                          /\ mem' = Freed(node, current)
                          /\ UNCHANGED <<frames, conds>>
                  /\ landed' = NoJump
  /\ returned' = NoReturn /\ lastInvoke' = NoInvoke /\ diag' = ""
  /\ UNCHANGED <<restarts, exited, hcondition, self, parked>>

\* a user finalizer's function returns: to the unwind, which deletes and
\* frees the node it ran, or to unregister_finalizer, which scans for it
FinalizerReturn ==
  /\ Running /\ frames # <<>>
  /\ Head(frames).pc = "finalizer_func"
  /\ LET fr == Head(frames)
     IN  IF fr.fn = "throw"
         THEN /\ handlers' = Delete(handlers, ListHead(handlers))
              /\ mem' = Freed(Head(handlers), ListHead(handlers))
              /\ frames' = <<[fr EXCEPT !.pc = "unwind", !.fin = NULL, !.node = NULL]>>
                             \o Tail(frames)
              /\ diag' = ""
         ELSE LET r == UnregisterFinalizerScan(handlers, fr.fin)
              IN  /\ handlers' = r.stack
                  /\ diag' = r.diag
                  /\ mem' = r.mem
                  /\ frames' = Tail(frames)
  /\ Quiet
  /\ UNCHANGED <<restarts, conds, exited, hcondition, self, parked>>

Next ==
  \/ \E h \in HandlerRefs : RegisterHandler(h)
  \/ \E h \in HandlerRefs : UnregisterHandler(h)
  \/ \E f \in FinalizerRefs : RegisterFinalizer(f)
  \/ \E f \in FinalizerRefs : UnregisterFinalizer(f)
  \/ \E r \in RestartRefs : RegisterRestart(r)
  \/ \E r \in RestartRefs : UnregisterRestart(r)
  \/ \E n \in Names : InvokeRestart(n)
  \/ \E n \in Names : Throw(n)
  \/ Dispatch
  \/ \E result \in HandlerResults : HandlerReturn(result)
  \/ UnwindStep
  \/ FinalizerReturn

Spec == Init /\ [][Next]_vars

\* The same program with a caller that leaves the restart stack alone: no
\* function but register_restart, unregister_restart and invoke_restart reads
\* or writes it.
NextCore ==
  \/ \E h \in HandlerRefs : RegisterHandler(h)
  \/ \E h \in HandlerRefs : UnregisterHandler(h)
  \/ \E f \in FinalizerRefs : RegisterFinalizer(f)
  \/ \E f \in FinalizerRefs : UnregisterFinalizer(f)
  \/ \E n \in Names : Throw(n)
  \/ Dispatch
  \/ \E result \in HandlerResults : HandlerReturn(result)
  \/ UnwindStep
  \/ FinalizerReturn

SpecCore == Init /\ [][NextCore]_vars

\* ------------------------------------------------------------ two threads
\* handlers and restarts are thread_local: each thread has its own pair of
\* list heads, and its own call stack.  The variables handlers, restarts and
\* frames are those of the running thread; when the scheduler lets the other
\* thread run they name that thread's objects.  The heap (conds) and the
\* process exit status are shared.

\* the two list heads declared static, without thread_local: one pair of
\* lists for both threads
SwitchThreadSharedLists ==
  /\ Running
  /\ self' = 3 - self
  /\ handlers' = handlers /\ restarts' = restarts
  /\ frames' = parked.frames
  /\ parked' = [handlers |-> parked.handlers, restarts |-> parked.restarts,
                frames |-> frames]
  /\ Quiet /\ diag' = "" /\ mem' = NoMem
  /\ UNCHANGED <<conds, exited, hcondition>>

\* the scheduler suspends the running thread and resumes the other one
SwitchThread ==
  /\ Running
  /\ self' = 3 - self
  /\ handlers' = parked.handlers /\ restarts' = parked.restarts
  /\ frames' = parked.frames
  /\ parked' = [handlers |-> handlers, restarts |-> restarts, frames |-> frames]
  /\ Quiet /\ diag' = "" /\ mem' = NoMem
  /\ UNCHANGED <<conds, exited, hcondition>>

\* the thread whose code declares a registration struct: the last struct of
\* each kind is thread 2's, the others are thread 1's
ThreadOf(tag, ref) ==
  CASE tag = HANDLER   -> IF ref = NumHandlers THEN 2 ELSE 1
    [] tag = FINALIZER -> IF ref = NumFinalizers THEN 2 ELSE 1
    [] OTHER           -> IF ref = NumRestarts THEN 2 ELSE 1

\* the bounds on the nodes the two threads hold between them
RoomForEntry   == Len(handlers) + Len(parked.handlers) < ThreadEntries
RoomForRestart == Len(restarts) + Len(parked.restarts) < MaxRestarts

\* Two threads: each registers the structs it declares and unregisters its
\* own finalizers; either may call unregister_handler and unregister_restart
\* for any struct, signal any name and invoke any restart name.
NextThreads ==
  \/ SwitchThread
  \/ \E h \in HandlerRefs :
       ThreadOf(HANDLER, h) = self /\ RoomForEntry /\ RegisterHandler(h)
  \/ \E h \in HandlerRefs : UnregisterHandler(h)
  \/ \E f \in FinalizerRefs :
       ThreadOf(FINALIZER, f) = self /\ RoomForEntry /\ RegisterFinalizer(f)
  \/ \E f \in FinalizerRefs :
       ThreadOf(FINALIZER, f) = self /\ UnregisterFinalizer(f)
  \/ \E r \in RestartRefs :
       ThreadOf(RESTART, r) = self /\ RoomForRestart /\ RegisterRestart(r)
  \/ \E r \in RestartRefs : UnregisterRestart(r)
  \/ \E n \in Names : InvokeRestart(n)
  \/ \E n \in Names : Throw(n)
  \/ Dispatch
  \/ \E result \in HandlerResults : HandlerReturn(result)
  \/ UnwindStep
  \/ FinalizerReturn

SpecThreads == Init /\ [][NextThreads]_vars

\* ======================================================= the claims
\* the entries of a stack, newest first
Entries(shape) == [i \in 1..Len(shape) |-> Len(shape) - i + 1]
\* the handler entries for a name, newest first
MatchingEntries(shape, name) ==
  SelectSeq(Entries(shape),
            LAMBDA p : /\ Entry(shape, p).tag = HANDLER
                       /\ HandlerName(Entry(shape, p).ref) = name)
\* the finalizer entries above entry, newest first, as the unwind logs them
FinalizersAbove(shape, entry) ==
  LET above == SelectSeq(Entries(shape),
                         LAMBDA p : p > entry /\ Entry(shape, p).tag = FINALIZER)
  IN  [i \in 1..Len(above) |-> [entry |-> above[i], ref |-> Entry(shape, above[i]).ref]]
UserFinalizer(node) == node.tag = FINALIZER /\ ~IsCondFinalizer(node.ref)

\* the handlers a dispatch has called are the first matching entries of the
\* stack it started on, in order, all but the last having returned Pass
InvokedInOrder(name, snap0, invoked) ==
  LET matching == MatchingEntries(snap0, name)
  IN  /\ Len(invoked) <= Len(matching)
      /\ \A k \in 1..Len(invoked) :
           /\ invoked[k].entry = matching[k]
           /\ invoked[k].ref = Entry(snap0, matching[k]).ref
           /\ k < Len(invoked) => invoked[k].result = HANDLER_PASS

\* C1: a signal of name n invokes only handler nodes whose condition_name is
\* n, newest first: the handlers called so far by any dispatch (in progress,
\* just returned or just jumped) are exactly the first matching handler nodes
\* of the stack in stack order, and every one before the last returned Pass.
\* Finalizer nodes and handlers of another name are never among them.
C1_NewestFirstMatching ==
  /\ \A i \in 1..Len(frames) :
       frames[i].fn = "throw" =>
         InvokedInOrder(frames[i].name, frames[i].snap0, frames[i].invoked)
  /\ returned.cond # NULL =>
       InvokedInOrder(returned.name, returned.snap0, returned.invoked)
  /\ landed.cond # NULL =>
       InvokedInOrder(landed.name, landed.snap0, landed.invoked)

\* a dispatch called two handlers of its name and skipped one of another name
\* that sits between them
C1_Witness ==
  \E i \in 1..Len(frames) :
    /\ frames[i].fn = "throw"
    /\ Len(frames[i].invoked) = 2
    /\ frames[i].invoked[1].entry = 3 /\ frames[i].invoked[2].entry = 1
    /\ frames[i].snap0[2].tag = HANDLER

\* C2: when a handler H returns Abort, the finalizers whose nodes sit above H
\* have each been run once, newest first, by the time the jump fires, and no
\* finalizer at or below H was run by that unwind; while the unwind is under
\* way the finalizers it has run are a prefix of that list.
C2_UnwindRunsFinalizersAbove ==
  /\ landed.h # NULL => landed.log = FinalizersAbove(landed.snap, landed.entry)
  /\ \A i \in 1..Len(frames) :
       frames[i].pc \in {"unwind", "finalizer_func"} /\ frames[i].fn = "throw" =>
         LET all == FinalizersAbove(frames[i].snap, frames[i].canidate)
         IN  /\ Len(frames[i].log) <= Len(all)
             /\ frames[i].log = SubSeq(all, 1, Len(frames[i].log))

\* a jump has fired after two different user finalizers above the handler ran
C2_Witness ==
  /\ landed.h # NULL
  /\ Len(landed.log) = 3
  /\ ~IsCondFinalizer(landed.log[2].ref) /\ ~IsCondFinalizer(landed.log[3].ref)
  /\ landed.log[2].ref # landed.log[3].ref

\* the callback of the finalizer node at p is running in the innermost call
RunningAt(p) ==
  /\ frames # <<>>
  /\ Head(frames).pc = "finalizer_func" /\ Head(frames).node = p
\* the callback of the node at p is running and has itself called into the
\* library: another call is in progress inside it
Reentered(p) ==
  \E i \in 2..Len(frames) : frames[i].pc = "finalizer_func" /\ frames[i].node = p
\* the place of the node a step removes from the stack
RemovedIndex ==
  CHOOSE i \in 1..Len(handlers) :
    /\ i > Len(handlers') \/ handlers[i] # handlers'[i]
    /\ \A j \in 1..(i - 1) : handlers[j] = handlers'[j]

\* C3: a registered user finalizer runs exactly once.  While its node is on
\* the stack the callback has not run, unless it is running right now (in
\* unregister_finalizer, or in the unwind of an Abort to an older handler);
\* and whenever its node leaves the stack the callback has run exactly once.
\* The caller's side of the contract is built in: a run of
\* unregister_finalizer(F) while F is not registered belongs to no node.  Set
\* aside are the nodes whose own callback called back into the library and
\* has not returned, or was left by a jump.
C3_FinalizerExactlyOnce ==
  /\ [](\A p \in 1..Len(handlers) :
          LET node == Entry(handlers, p)
          IN  UserFinalizer(node) /\ ~node.esc /\ ~Reentered(p) =>
                node.n = IF RunningAt(p) THEN 1 ELSE 0)
  /\ [][Len(handlers') < Len(handlers) =>
          LET node == handlers[RemovedIndex]
              p    == Len(handlers) - RemovedIndex + 1
          IN  UserFinalizer(node) /\ ~node.esc /\ ~Reentered(p) => node.n = 1]_vars

\* a jump has fired whose unwind ran a user finalizer above the handler while
\* another finalizer, below the handler, stays registered and has not run
C3_Witness ==
  /\ landed.h # NULL
  /\ \E k \in 1..Len(landed.log) : ~IsCondFinalizer(landed.log[k].ref)
  /\ \E p \in 1..Len(handlers) :
       UserFinalizer(Entry(handlers, p)) /\ Entry(handlers, p).n = 0

\* C4: when control resumes at H's jump destination the stack is H's node
\* followed by the nodes that were below H, in the same order; everything
\* above H is gone, and the scan of unregister_handler(H) finds H's node, at
\* the head of the list.
C4_StackAfterAbort ==
  landed.h # NULL =>
    /\ Shape(handlers) = SubSeq(landed.snap, Len(landed.snap) - landed.entry + 1,
                                Len(landed.snap))
    /\ handlers # <<>>
    /\ Head(handlers).tag = HANDLER /\ Head(handlers).ref = landed.h
    /\ ScanEntry(handlers, ListHead(handlers), HANDLER, landed.h) = ListHead(handlers)

\* a jump has fired to a handler that had a finalizer below it and, above it,
\* another handler beside the condition's finalizer
C4_Witness ==
  /\ landed.h # NULL
  /\ Len(handlers) = 2 /\ handlers[2].tag = FINALIZER
  /\ Len(landed.snap) = 4
  /\ landed.snap[2].tag = HANDLER

\* no node on the stack is the finalizer of condition c
NoCondFinalizer(c) ==
  \A i \in 1..Len(handlers) :
    ~(handlers[i].tag = FINALIZER /\ handlers[i].ref = CondFinalizerRef(c))

C6_DestroyedOnFatalExit ==
  exited # NULL => conds[Head(frames).cond] = "free"

C8_ConditionFieldPopulated ==
  landed.h # NULL =>
    hcondition[landed.h] = landed.cond /\ conds[landed.cond] = "live"

\* the walk of a dispatch is over without a handler having taken the condition
Exhausted(fr) ==
  /\ fr.invoked = [k \in 1..Len(MatchingEntries(fr.snap0, fr.name)) |->
                     [entry  |-> MatchingEntries(fr.snap0, fr.name)[k],
                      ref    |-> Entry(fr.snap0, MatchingEntries(fr.snap0, fr.name)[k]).ref,
                      result |-> HANDLER_PASS]]
InvalidVerdict(invoked) ==
  \E k \in 1..Len(invoked) : invoked[k].result \notin
     {HANDLER_ABORT, HANDLER_HANDLED, HANDLER_PASS, "running"}

\* C9: signal terminates the process, with status 1, exactly when the walk is
\* exhausted (every matching handler of the stack was called and passed, or
\* there is none) or a handler returned a value outside the enumeration.  The
\* terminated signal has neither returned nor jumped; a signal that returned
\* or jumped ended on Handled or Abort; and a dispatch whose walk is exhausted
\* terminates the process at its next step.
C9_FatalExactlyWhen ==
  /\ [](exited # NULL =>
          /\ exited = 1
          /\ frames # <<>> /\ Head(frames).fn = "throw"
          /\ \/ InvalidVerdict(Head(frames).invoked)
             \/ Head(frames).pc = "loop" /\ Exhausted(Head(frames))
          /\ landed = NoJump /\ returned = NoReturn)
  /\ [](exited = NULL =>
          /\ \A i \in 1..Len(frames) : ~InvalidVerdict(frames[i].invoked)
          /\ ~InvalidVerdict(returned.invoked) /\ ~InvalidVerdict(landed.invoked)
          /\ returned.cond # NULL =>
               returned.invoked[Len(returned.invoked)].result = HANDLER_HANDLED
          /\ landed.cond # NULL =>
               landed.invoked[Len(landed.invoked)].result = HANDLER_ABORT)
  /\ [][(/\ exited = NULL /\ frames # <<>>
         /\ Head(frames).fn = "throw" /\ Head(frames).pc = "loop"
         /\ Exhausted(Head(frames)))
        => exited' = 1 /\ frames' = frames]_vars

\* the process has terminated after both matching handlers passed
C9_Witness ==
  /\ exited = 1
  /\ Len(Head(frames).invoked) = 2
  /\ Head(frames).invoked[2].result = HANDLER_PASS

\* the restart entries for a name, newest first
MatchingRestarts(rstack, name) ==
  SelectSeq(Entries(rstack), LAMBDA p : RestartName(Entry(rstack, p)) = name)

C10_WitnessNotFound ==
  /\ lastInvoke.name # "" /\ restarts = <<>> /\ frames = <<>>
  /\ lastInvoke.result = RESTART_NOT_FOUND

\* a node of this tag holds this registration address
OnStack(tag, ref) ==
  \E i \in 1..Len(handlers) : handlers[i].tag = tag /\ handlers[i].ref = ref
OnRestartStack(ref) == \E i \in 1..Len(restarts) : restarts[i] = ref

\* C11: an unregister call for a registration that is not on its stack does
\* not terminate the process and changes neither stack.  unregister_handler
\* and unregister_restart write their diagnostic in the same step;
\* unregister_finalizer changes nothing when it is called and nothing when its
\* scan finds no node and writes the diagnostic.  A node of the other tag that
\* holds the same address does not count as a registration: a call for
\* handler h with only a finalizer node of address h on the stack is such a
\* call and removes nothing, and likewise the other way round.
C11_UnknownUnregister ==
  [][/\ \A h \in HandlerRefs :
          ~OnStack(HANDLER, h) /\ UnregisterHandler(h) =>
            /\ handlers' = handlers /\ restarts' = restarts
            /\ exited' = NULL /\ diag' = "unknown handler"
     /\ \A r \in RestartRefs :
          ~OnRestartStack(r) /\ UnregisterRestart(r) =>
            /\ handlers' = handlers /\ restarts' = restarts
            /\ exited' = NULL /\ diag' = "unknown restart"
     /\ \A f \in FinalizerRefs :
          ~OnStack(FINALIZER, f) /\ UnregisterFinalizer(f) =>
            handlers' = handlers /\ restarts' = restarts /\ exited' = NULL
     /\ (/\ frames # <<>> /\ Head(frames).fn = "unregister_finalizer"
         /\ ~OnStack(FINALIZER, Head(frames).fin) /\ FinalizerReturn) =>
            /\ handlers' = handlers /\ restarts' = restarts
            /\ exited' = NULL /\ diag' = "unknown finalizer"
            /\ frames' = Tail(frames)]_vars

\* unregister_handler has just written its diagnostic while handler 3 is
\* registered, so it was called for address 1 or 2; finalizer nodes holding
\* the addresses 1 and 2 are on the stack, and a restart is registered
C11_Witness ==
  /\ diag = "unknown handler"
  /\ OnStack(HANDLER, 3) /\ OnStack(FINALIZER, 1) /\ OnStack(FINALIZER, 2)
  /\ restarts # <<>>

\* C13: when a jump fires out of a dispatch that was started inside the
\* callback of a finalizer F (run by an unwind or by unregister_finalizer, its
\* node still registered) and the handler jumped to is older than F, every
\* user finalizer the nested unwind has run, F among them, has had its
\* callback entered exactly once in all.
C13_ReentrantFinalizerOnce ==
  landed.h # NULL =>
    \A i \in 1..Len(landed.below) :
      (/\ landed.below[i].pc = "finalizer_func"
       /\ landed.below[i].node # NULL
       /\ landed.below[i].node > landed.entry) =>
        \A k \in 1..Len(landed.log) :
          ~IsCondFinalizer(landed.log[k].ref) => landed.runs[k] = 1

C15_NoRunAfterUnwind ==
  [][\A f \in FinalizerRefs :
       (/\ landed.h # NULL
        /\ \E k \in 1..Len(landed.log) : landed.log[k].ref = f
        /\ ~OnStack(FINALIZER, f)
        /\ UnregisterFinalizer(f)) => frames' = frames]_vars

\* C16: when signal returns (the last handler called returned Handled, the
\* ones called before it Pass; callbacks register and unregister nothing) the
\* handler/finalizer stack is the one the signal was called on, node for node:
\* every handler it called or passed over is registered in place, no user
\* finalizer was run or removed, the condition's own finalizer is gone; and
\* the restart stack is the one the signal was called on.
C16_StackAfterHandled ==
  returned.cond # NULL =>
    /\ handlers = returned.nodes0
    /\ Shape(handlers) = returned.snap0
    /\ restarts = returned.rsnap0
    /\ NoCondFinalizer(returned.cond)
    /\ \A k \in 1..Len(returned.invoked) :
         /\ Entry(handlers, returned.invoked[k].entry).tag = HANDLER
         /\ Entry(handlers, returned.invoked[k].entry).ref = returned.invoked[k].ref
         /\ returned.invoked[k].result =
              IF k < Len(returned.invoked) THEN HANDLER_PASS ELSE HANDLER_HANDLED

\* a signal has returned after one handler passed and an older one handled
\* it, a user finalizer that has not run and a restart being registered
C16_Witness ==
  /\ returned.cond # NULL /\ frames = <<>>
  /\ Len(returned.invoked) = 2
  /\ \E p \in 1..Len(handlers) :
       UserFinalizer(Entry(handlers, p)) /\ Entry(handlers, p).n = 0
  /\ restarts # <<>>

\* the place of the newest handler node holding address h
NewestHandlerIndex(h) ==
  CHOOSE i \in 1..Len(handlers) :
    /\ handlers[i].tag = HANDLER /\ handlers[i].ref = h
    /\ \A j \in 1..(i - 1) : ~(handlers[j].tag = HANDLER /\ handlers[j].ref = h)

\* C17: unregister_handler(h), a handler node holding h being on the stack,
\* removes the newest such node and frees it; the nodes before and after it
\* stay as they are, in order; no callback is entered, no jump fires, no
\* condition and no restart is touched and nothing is reported.
C17_UnregisterHandler ==
  [][\A h \in HandlerRefs :
       OnStack(HANDLER, h) /\ UnregisterHandler(h) =>
         LET i == NewestHandlerIndex(h)
         IN  /\ handlers' = SubSeq(handlers, 1, i - 1)
                              \o SubSeq(handlers, i + 1, Len(handlers))
             /\ Len(handlers') = Len(handlers) - 1
             /\ mem'.freed = <<[tag |-> HANDLER, ref |-> h,
                                entry |-> Len(handlers) - i + 1]>>
             /\ frames' = <<>> /\ landed' = NoJump
             /\ conds' = conds /\ restarts' = restarts
             /\ exited' = NULL /\ diag' = ""]_vars

\* unregister_handler has just removed the middle node of three; a finalizer
\* above it and a node below it stay registered
C17_Witness ==
  /\ frames = <<>> /\ returned = NoReturn
  /\ Len(mem.freed) = 1
  /\ mem.freed[1].tag = HANDLER /\ mem.freed[1].entry = 2
  /\ Len(handlers) = 2 /\ handlers[1].tag = FINALIZER

\* C18: every node a step takes off the handler/finalizer stack or off the
\* restart stack is freed in that step, so the nodes allocated and not freed
\* are at all times the nodes linked in one of the two lists.
C18_FreedWhenRemoved ==
  mem.unlinked = mem.freed

\* C19: the condition a handler callback is running with is live and is the
\* one its own dispatch allocated, and the condition invoke_restart has just
\* handed to a restart callback on behalf of a handler callback is live and
\* belongs to a dispatch in progress; nested dispatch included.
C19_ConditionLive ==
  /\ (frames # <<>> /\ Head(frames).pc = "handler_func") =>
       /\ Head(frames).fn = "throw"
       /\ conds[Head(frames).cond] = "live"
       /\ \A i \in 2..Len(frames) : frames[i].cond # Head(frames).cond
  /\ lastInvoke.arg # NULL =>
       /\ conds[lastInvoke.arg] = "live"
       /\ frames # <<>> /\ Head(frames).pc = "handler_func"
       /\ Head(frames).cond = lastInvoke.arg

\* a restart callback has been called with the condition of a dispatch that
\* was started inside the callback of a finalizer run by the unwind of another
\* dispatch, whose condition is destroyed
C19_Witness ==
  /\ lastInvoke.arg # NULL /\ lastInvoke.called # <<>>
  /\ Len(frames) = 2
  /\ frames[2].fn = "throw" /\ frames[2].pc = "finalizer_func"
  /\ conds[frames[2].cond] = "free"

\* C20: no step of an unwind changes the restart stack, and no step but
\* register_restart and unregister_restart does; when control resumes at the
\* jump destination the restart stack is the one the signal was called on, and
\* invoke_restart finds an entry for the name of every restart on it.
C20_AbortKeepsRestarts ==
  /\ [](landed.h # NULL =>
          /\ restarts = landed.rsnap0
          /\ \A i \in 1..Len(restarts) :
               FindRestartEntry(restarts, ListHead(restarts),
                                RestartName(restarts[i])) # NULL)
  /\ [][UnwindStep => restarts' = restarts]_vars
  /\ [][restarts' # restarts =>
          \E r \in RestartRefs : RegisterRestart(r) \/ UnregisterRestart(r)]_vars

\* a jump has fired to a handler with a handler and a finalizer above it,
\* two restarts being registered
C20_Witness ==
  /\ landed.h # NULL
  /\ Len(landed.snap) >= 4
  /\ Len(restarts) = 2
  /\ landed.entry = 1

\* every node of a handler/finalizer list was installed by thread t: a user
\* registration declared by t, or the finalizer of a condition that one of
\* t's calls in progress allocated
OwnEntries(stack, calls, t) ==
  \A i \in 1..Len(stack) :
    IF IsCondFinalizer(stack[i].ref)
    THEN \E j \in 1..Len(calls) : calls[j].cond = CondOfFinalizer(stack[i].ref)
    ELSE ThreadOf(stack[i].tag, stack[i].ref) = t
OwnRestarts(rstack, t) ==
  \A i \in 1..Len(rstack) : ThreadOf(RESTART, rstack[i]) = t
\* the handlers a thread's calls have invoked and the user finalizers its
\* unwinds have run were installed by thread t
OwnCallbacks(calls, t) ==
  \A i \in 1..Len(calls) :
    /\ \A k \in 1..Len(calls[i].invoked) :
         ThreadOf(HANDLER, calls[i].invoked[k].ref) = t
    /\ \A k \in 1..Len(calls[i].log) :
         ~IsCondFinalizer(calls[i].log[k].ref) =>
           ThreadOf(FINALIZER, calls[i].log[k].ref) = t
    /\ calls[i].pc = "finalizer_func" => ThreadOf(FINALIZER, calls[i].fin) = t

====
